---- MODULE Spec2Model ----
(***************************************************************************)
(* A model of the doubly-linked list of src/src/lib.rs.                    *)
(*                                                                         *)
(* Node addresses are the positions of the sequence heap: every Box::new   *)
(* appends a node, so an address is never handed out twice and a reference *)
(* to a deallocated node stays recognisable.  A cell counts how often it   *)
(* was deallocated (frees) and holds nothing once it is deallocated.       *)
(***************************************************************************)
EXTENDS Integers, Sequences, FiniteSets, TLC

\* ---- bounds of the model ----
MaxNodes == 4      \* Box::new calls in one behaviour
Overrun  == 1      \* indices passed to push_at / pop_at are 0..len+Overrun

\* The element type T is a parameter of the list, and the only operation that
\* looks at a key is contains, by equality: two key values give equal and
\* unequal keys and tell any two positions of a list apart.
Keys == {1, 2}

\* Option::None of an Option<NonNull<Node<T>>>
Null == 0

VARIABLES
    head,      \* LinkedList.head
    tail,      \* LinkedList.tail
    len,       \* LinkedList.len
    heap,      \* the nodes ever allocated: address -> [key, prev, next, frees]
    released,  \* the addresses the last call deallocated, in order
    call,      \* the last call made on the list
    ret,       \* what that call returned
    abs,       \* the sequence the same calls build, by sequence operations
    ub,        \* a call dereferenced an absent or deallocated reference
    dropped,   \* the list has been torn down
    cur        \* the cursor that borrows the list: [kind, head, len]

vars == <<head, tail, len, heap, released, call, ret, abs, ub, dropped, cur>>

\* the indices a caller tries: every valid one, and some past the end
Indices == 0..(len + Overrun)

\* ---- results of a call ----
Unit     == [kind |-> "unit", val |-> 0]
None     == [kind |-> "none", val |-> 0]
Panic    == [kind |-> "panic", val |-> 0]
Some(k)  == [kind |-> "some", val |-> k]
Usize(n) == [kind |-> "usize", val |-> n]
Bool(b)  == [kind |-> "bool", val |-> IF b THEN 1 ELSE 0]

\* no Iter or IterMut borrows the list
NoCursor == [kind |-> "none", head |-> 0, len |-> 0]

Call(name, at, key) == [name |-> name, at |-> at, key |-> key]

\* ---- the heap ----
\* Node::new and the struct literals of the push operations
Node(key, prev, next) == [key |-> key, prev |-> prev, next |-> next, frees |-> 0]

\* p can be dereferenced: it is present and its node is still allocated
Ok(h, p) == p \in DOMAIN h /\ h[p].frees = 0

\* node.as_ref().next / .prev / .key; the value read through a reference that
\* is not Ok is only looked at in states that are flagged ub
NextOf(h, p) == IF p \in DOMAIN h THEN h[p].next ELSE Null
PrevOf(h, p) == IF p \in DOMAIN h THEN h[p].prev ELSE Null
KeyOf(h, p)  == IF p \in DOMAIN h THEN h[p].key ELSE 0

\* node.as_mut().next = q / .prev = q
SetNext(h, p, q) == IF p \in DOMAIN h THEN [h EXCEPT ![p].next = q] ELSE h
SetPrev(h, p, q) == IF p \in DOMAIN h THEN [h EXCEPT ![p].prev = q] ELSE h

\* the drop of a Box<Node<T>>: the cell holds nothing any more
Dealloc(h, p) ==
    IF p \in DOMAIN h
    THEN [h EXCEPT ![p] = [key |-> 0, prev |-> Null, next |-> Null,
                           frees |-> h[p].frees + 1]]
    ELSE h

\* ---- the abstract sequence ----
InsertAt(s, i, x) == SubSeq(s, 1, i) \o <<x>> \o SubSeq(s, i + 1, Len(s))
RemoveAt(s, i)    == SubSeq(s, 1, i) \o SubSeq(s, i + 2, Len(s))

Init ==
    /\ head = Null
    /\ tail = Null
    /\ len = 0
    /\ heap = <<>>
    /\ released = <<>>
    /\ call = Call("new", 0, 0)
    /\ ret = Unit
    /\ abs = <<>>
    /\ ub = FALSE
    /\ dropped = FALSE
    /\ cur = NoCursor

\* ---- insertion ----
PushFront(key) ==
    LET node == Len(heap) + 1 IN
    IF head = Null
    THEN /\ heap' = Append(heap, Node(key, Null, Null))
         /\ head' = node
         /\ tail' = node
         /\ len' = 1
         /\ released' = <<>>
         /\ UNCHANGED ub
    ELSE /\ heap' = SetPrev(Append(heap, Node(key, Null, head)), head, node)
         /\ head' = node
         /\ len' = len + 1
         /\ ub' = (ub \/ ~Ok(heap, head))
         /\ released' = <<>>
         /\ UNCHANGED tail

PushBack(key) ==
    LET node == Len(heap) + 1 IN
    IF tail = Null
    THEN /\ heap' = Append(heap, Node(key, Null, Null))
         /\ head' = node
         /\ tail' = node
         /\ len' = 1
         /\ released' = <<>>
         /\ UNCHANGED ub
    ELSE /\ heap' = SetNext(Append(heap, Node(key, tail, Null)), tail, node)
         /\ tail' = node
         /\ len' = len + 1
         /\ ub' = (ub \/ ~Ok(heap, tail))
         /\ released' = <<>>
         /\ UNCHANGED head

push_front(key) ==
    /\ ~dropped
    /\ cur = NoCursor
    /\ UNCHANGED cur
    /\ Len(heap) < MaxNodes
    /\ PushFront(key)
    /\ call' = Call("push_front", 0, key)
    /\ ret' = Unit
    /\ abs' = <<key>> \o abs
    /\ UNCHANGED dropped

push_back(key) ==
    /\ ~dropped
    /\ cur = NoCursor
    /\ UNCHANGED cur
    /\ Len(heap) < MaxNodes
    /\ PushBack(key)
    /\ call' = Call("push_back", 0, key)
    /\ ret' = Unit
    /\ abs' = Append(abs, key)
    /\ UNCHANGED dropped

\* a walk that forgets `prev_node = post_node`
RECURSIVE PushWalkStuck(_, _, _)
PushWalkStuck(h, w, steps) ==
    IF steps = 0 THEN w
    ELSE PushWalkStuck(h,
                  [prev |-> w.prev,
                   post |-> NextOf(h, w.post),
                   bad  |-> w.bad \/ ~Ok(h, w.post) \/ NextOf(h, w.post) = Null],
                  steps - 1)

\* push_at past the delegations: the walk of lines 160-166 from the head.
\* A walk state is [prev, post, bad]; bad records a dereference that was not Ok.
RECURSIVE PushWalk(_, _, _)
PushWalk(h, w, steps) ==
    IF steps = 0 THEN w
    ELSE PushWalk(h,
                  [prev |-> w.post,
                   post |-> NextOf(h, w.post),
                   bad  |-> w.bad \/ ~Ok(h, w.post) \/ NextOf(h, w.post) = Null],
                  steps - 1)

\* an insertion in the middle that moves the tail as push_back does
PushAtMiddleMovesTail(at, key) ==
    LET w0 == [prev |-> head,
               post |-> NextOf(heap, head),
               bad  |-> ~Ok(heap, head) \/ NextOf(heap, head) = Null]
        w    == PushWalk(heap, w0, at - 1)
        node == Len(heap) + 1
    IN  /\ heap' = SetPrev(SetNext(Append(heap, Node(key, w.prev, w.post)),
                                   w.prev, node),
                           w.post, node)
        /\ tail' = node
        /\ len' = len + 1
        /\ ub' = (ub \/ w.bad \/ ~Ok(heap, w.prev) \/ ~Ok(heap, w.post))
        /\ released' = <<>>
        /\ UNCHANGED head

PushAtMiddle(at, key) ==
    LET w0 == [prev |-> head,
               post |-> NextOf(heap, head),
               bad  |-> ~Ok(heap, head) \/ NextOf(heap, head) = Null]
        w    == PushWalk(heap, w0, at - 1)
        node == Len(heap) + 1
    IN  /\ heap' = SetPrev(SetNext(Append(heap, Node(key, w.prev, w.post)),
                                   w.prev, node),
                           w.post, node)
        /\ len' = len + 1
        /\ ub' = (ub \/ w.bad \/ ~Ok(heap, w.prev) \/ ~Ok(heap, w.post))
        /\ released' = <<>>
        /\ UNCHANGED <<head, tail>>

\* a push_at that clamps an index past the end instead of failing its assert
push_at_clamped(at, key) ==
    /\ ~dropped
    /\ cur = NoCursor
    /\ UNCHANGED cur
    /\ call' = Call("push_at", at, key)
    /\ UNCHANGED dropped
    /\ Len(heap) < MaxNodes
    /\ ret' = Unit
    /\ IF at = 0 THEN PushFront(key)
       ELSE IF at >= len THEN PushBack(key)
       ELSE PushAtMiddle(at, key)
    /\ abs' = IF at > Len(abs) THEN abs ELSE InsertAt(abs, at, key)

push_at(at, key) ==
    /\ ~dropped
    /\ cur = NoCursor
    /\ UNCHANGED cur
    /\ call' = Call("push_at", at, key)
    /\ UNCHANGED dropped
    /\ IF at > len
       THEN \* the assert of lines 145-150 fails
            /\ ret' = Panic
            /\ released' = <<>>
            /\ UNCHANGED <<head, tail, len, heap, ub>>
       ELSE /\ Len(heap) < MaxNodes
            /\ ret' = Unit
            /\ IF at = 0 THEN PushFront(key)
               ELSE IF at = len THEN PushBack(key)
               ELSE PushAtMiddle(at, key)
    /\ abs' = IF at > Len(abs) THEN abs ELSE InsertAt(abs, at, key)

\* ---- removal ----
\* a relink that leaves the new tail's next as it was
PopBackRelinkNoClear(h, t) ==
    LET newTail == PrevOf(h, t) IN
    [tail |-> newTail,
     heap |-> h,
     bad  |-> FALSE]

\* lines 194-198: the tail moves to the old tail's prev, whose next is cleared
PopBackRelink(h, t) ==
    LET newTail == PrevOf(h, t) IN
    [tail |-> newTail,
     heap |-> IF newTail = Null THEN h ELSE SetNext(h, newTail, Null),
     bad  |-> newTail # Null /\ ~Ok(h, newTail)]

\* a pop_back that hands out the head's key
PopBackRetHead == IF tail = Null THEN None ELSE Some(KeyOf(heap, head))

PopBackRet == IF tail = Null THEN None ELSE Some(KeyOf(heap, tail))

\* a pop_back without the len == 1 branch: it always follows tail.prev
PopBackAlwaysRelink ==
    IF tail = Null
    THEN released' = <<>> /\ UNCHANGED <<head, tail, len, heap, ub>>
    ELSE LET r == PopBackRelink(heap, tail) IN
         /\ tail' = r.tail
         /\ heap' = Dealloc(r.heap, tail)
         /\ len' = len - 1
         /\ released' = <<tail>>
         /\ ub' = (ub \/ ~Ok(heap, tail) \/ r.bad)
         /\ UNCHANGED head

PopBack ==
    IF tail = Null
    THEN released' = <<>> /\ UNCHANGED <<head, tail, len, heap, ub>>
    ELSE IF len = 1
    THEN /\ head' = Null
         /\ tail' = Null
         /\ len' = 0
         /\ heap' = Dealloc(heap, tail)
         /\ released' = <<tail>>
         /\ ub' = (ub \/ ~Ok(heap, tail))
    ELSE LET r == PopBackRelink(heap, tail) IN
         /\ tail' = r.tail
         /\ heap' = Dealloc(r.heap, tail)
         /\ len' = len - 1
         /\ released' = <<tail>>
         /\ ub' = (ub \/ ~Ok(heap, tail) \/ r.bad)
         /\ UNCHANGED head

\* a pop_front that takes a list of one node for an empty one
PopFrontRetByLen == IF len <= 1 THEN None ELSE Some(KeyOf(heap, head))

PopFrontRet == IF head = Null THEN None ELSE Some(KeyOf(heap, head))

\* a pop_front whose len == 1 branch forgets `self.tail = None`
PopFrontKeepTail ==
    IF head = Null
    THEN released' = <<>> /\ UNCHANGED <<head, tail, len, heap, ub>>
    ELSE IF len = 1
    THEN /\ head' = Null
         /\ len' = 0
         /\ heap' = Dealloc(heap, head)
         /\ released' = <<head>>
         /\ ub' = (ub \/ ~Ok(heap, head))
         /\ UNCHANGED tail
    ELSE /\ head' = NextOf(heap, head)
         /\ len' = len - 1
         /\ released' = <<head>>
         /\ heap' = Dealloc(heap, head)
         /\ ub' = (ub \/ ~Ok(heap, head))
         /\ UNCHANGED tail

PopFront ==
    IF head = Null
    THEN released' = <<>> /\ UNCHANGED <<head, tail, len, heap, ub>>
    ELSE IF len = 1
    THEN /\ head' = Null
         /\ tail' = Null
         /\ len' = 0
         /\ heap' = Dealloc(heap, head)
         /\ released' = <<head>>
         /\ ub' = (ub \/ ~Ok(heap, head))
    ELSE /\ head' = NextOf(heap, head)
         /\ len' = len - 1
         /\ released' = <<head>>
         /\ heap' = Dealloc(heap, head)
         /\ ub' = (ub \/ ~Ok(heap, head))
         /\ UNCHANGED tail

\* pop_front as a function of the list l = [head, tail, len, heap]: the list
\* it leaves, what it returns and the node it deallocates
PopFrontFn(l) ==
    IF l.head = Null
    THEN [list |-> l, ret |-> None, released |-> <<>>]
    ELSE IF l.len = 1
    THEN [list |-> [head |-> Null, tail |-> Null, len |-> 0,
                    heap |-> Dealloc(l.heap, l.head)],
          ret |-> Some(KeyOf(l.heap, l.head)),
          released |-> <<l.head>>]
    ELSE [list |-> [head |-> NextOf(l.heap, l.head), tail |-> l.tail,
                    len |-> l.len - 1,
                    heap |-> Dealloc(l.heap, l.head)],
          ret |-> Some(KeyOf(l.heap, l.head)),
          released |-> <<l.head>>]

\* pop_front called until it returns None: the list left and the nodes
\* deallocated on the way, in order
RECURSIVE PopFrontAll(_, _)
PopFrontAll(l, log) ==
    LET r == PopFrontFn(l) IN
    IF r.ret = None THEN [list |-> l, released |-> log, calls |-> Len(log)]
    ELSE PopFrontAll(r.list, log \o r.released)

pop_back ==
    /\ ~dropped
    /\ cur = NoCursor
    /\ UNCHANGED cur
    /\ PopBack
    /\ call' = Call("pop_back", 0, 0)
    /\ ret' = PopBackRet
    /\ abs' = IF abs = <<>> THEN abs ELSE SubSeq(abs, 1, Len(abs) - 1)
    /\ UNCHANGED dropped

pop_front ==
    /\ ~dropped
    /\ cur = NoCursor
    /\ UNCHANGED cur
    /\ PopFront
    /\ call' = Call("pop_front", 0, 0)
    /\ ret' = PopFrontRet
    /\ abs' = IF abs = <<>> THEN abs ELSE Tail(abs)
    /\ UNCHANGED dropped

\* a walk that forgets to advance post_node
RECURSIVE PopWalkStuck(_, _, _)
PopWalkStuck(h, w, steps) ==
    IF steps = 0 THEN w
    ELSE PopWalkStuck(h,
                 [prev |-> NextOf(h, w.prev),
                  post |-> w.post,
                  bad  |-> w.bad \/ ~Ok(h, w.prev) \/ NextOf(h, w.prev) = Null],
                 steps - 1)

\* pop_at past the delegations: the walk of lines 242-256
RECURSIVE PopWalk(_, _, _)
PopWalk(h, w, steps) ==
    IF steps = 0 THEN w
    ELSE PopWalk(h,
                 [prev |-> NextOf(h, w.prev),
                  post |-> NextOf(h, w.post),
                  bad  |-> \/ w.bad
                           \/ ~Ok(h, w.prev) \/ NextOf(h, w.prev) = Null
                           \/ ~Ok(h, w.post) \/ NextOf(h, w.post) = Null],
                 steps - 1)

PopAtWalk(at) ==
    LET second == NextOf(heap, head)
        w0 == [prev |-> head,
               post |-> NextOf(heap, second),
               bad  |-> \/ ~Ok(heap, head) \/ second = Null
                        \/ ~Ok(heap, second) \/ NextOf(heap, second) = Null]
    IN  PopWalk(heap, w0, at - 1)

PopAtMiddleRet(at) == Some(KeyOf(heap, NextOf(heap, PopAtWalk(at).prev)))

PopAtMiddle(at) ==
    LET w    == PopAtWalk(at)
        node == NextOf(heap, w.prev)
    IN  /\ heap' = Dealloc(SetPrev(SetNext(heap, w.prev, w.post), w.post, w.prev),
                            node)
        /\ released' = <<node>>
        /\ len' = len - 1
        /\ ub' = (\/ ub \/ w.bad
                  \/ ~Ok(heap, w.prev) \/ ~Ok(heap, node)
                  \/ ~Ok(heap, w.post))
        /\ UNCHANGED <<head, tail>>

\* a pop_at that compares the index with len instead of len - 1
pop_at_past_last(at) ==
    /\ ~dropped
    /\ cur = NoCursor
    /\ UNCHANGED cur
    /\ call' = Call("pop_at", at, 0)
    /\ UNCHANGED dropped
    /\ IF at >= len
       THEN /\ ret' = Panic
            /\ released' = <<>>
            /\ UNCHANGED <<head, tail, len, heap, ub>>
       ELSE IF at = 0 THEN PopFront /\ ret' = PopFrontRet
       ELSE IF at = len THEN PopBack /\ ret' = PopBackRet
       ELSE PopAtMiddle(at) /\ ret' = PopAtMiddleRet(at)
    /\ abs' = IF at >= Len(abs) THEN abs ELSE RemoveAt(abs, at)

pop_at(at) ==
    /\ ~dropped
    /\ cur = NoCursor
    /\ UNCHANGED cur
    /\ call' = Call("pop_at", at, 0)
    /\ UNCHANGED dropped
    /\ IF at >= len
       THEN \* the assert of lines 227-232 fails
            /\ ret' = Panic
            /\ released' = <<>>
            /\ UNCHANGED <<head, tail, len, heap, ub>>
       ELSE IF at = 0 THEN PopFront /\ ret' = PopFrontRet
       ELSE IF at = len - 1 THEN PopBack /\ ret' = PopBackRet
       ELSE PopAtMiddle(at) /\ ret' = PopAtMiddleRet(at)
    /\ abs' = IF at >= Len(abs) THEN abs ELSE RemoveAt(abs, at)

\* ---- teardown ----
\* a loop that runs `while self.len > 1`
RECURSIVE DropLoopLeak(_)
DropLoopLeak(d) ==
    IF d.len <= 1 THEN d
    ELSE IF ~Ok(d.heap, d.head)
    THEN [d EXCEPT !.bad = TRUE]
    ELSE DropLoopLeak([head  |-> NextOf(d.heap, d.head),
                       len   |-> d.len - 1,
                       heap  |-> Dealloc(d.heap, d.head),
                       freed |-> Append(d.freed, d.head),
                       bad   |-> d.bad])

\* a loop that drops the node before it reads the node's next
RECURSIVE DropLoopStale(_)
DropLoopStale(d) ==
    IF d.len = 0 THEN d
    ELSE IF ~Ok(d.heap, d.head)
    THEN [d EXCEPT !.bad = TRUE]
    ELSE DropLoopStale([head  |-> NextOf(Dealloc(d.heap, d.head), d.head),
                        len   |-> d.len - 1,
                        heap  |-> Dealloc(d.heap, d.head),
                        freed |-> Append(d.freed, d.head),
                        bad   |-> d.bad])

\* the loop of lines 289-294 on [head, len, heap, freed, bad]; freed lists the
\* nodes the loop has deallocated
RECURSIVE DropLoop(_)
DropLoop(d) ==
    IF d.len = 0 THEN d
    ELSE IF ~Ok(d.heap, d.head)
    THEN [d EXCEPT !.bad = TRUE]
    ELSE DropLoop([head  |-> NextOf(d.heap, d.head),
                   len   |-> d.len - 1,
                   heap  |-> Dealloc(d.heap, d.head),
                   freed |-> Append(d.freed, d.head),
                   bad   |-> d.bad])

drop ==
    /\ ~dropped
    /\ cur = NoCursor
    /\ UNCHANGED cur
    /\ dropped' = TRUE
    /\ call' = Call("drop", 0, 0)
    /\ ret' = Unit
    /\ IF head = Null
       THEN released' = <<>> /\ UNCHANGED <<head, len, heap, ub>>
       ELSE LET d == DropLoop([head |-> head, len |-> len, heap |-> heap,
                               freed |-> <<>>, bad |-> FALSE])
            IN  /\ head' = d.head
                /\ len' = d.len
                /\ heap' = d.heap
                /\ released' = d.freed
                /\ ub' = (ub \/ d.bad)
    /\ UNCHANGED <<tail, abs>>

\* ---- metadata and membership ----
\* the calls that only read leave the list and its cursor alone
ReadOnly == UNCHANGED <<head, tail, len, heap, abs, dropped, cur>>

len_ ==
    /\ ~dropped
    /\ cur.kind # "iter_mut"
    /\ call' = Call("len", 0, 0)
    /\ ret' = Usize(len)
    /\ released' = <<>>
    /\ UNCHANGED ub
    /\ ReadOnly

is_empty ==
    /\ ~dropped
    /\ cur.kind # "iter_mut"
    /\ call' = Call("is_empty", 0, 0)
    /\ ret' = Bool(len = 0)
    /\ released' = <<>>
    /\ UNCHANGED ub
    /\ ReadOnly

\* a loop that gives up before the last element
RECURSIVE ContainsLoopShort(_, _, _, _)
ContainsLoopShort(h, p, n, key) ==
    IF n <= 1 THEN [found |-> FALSE, bad |-> FALSE]
    ELSE IF ~Ok(h, p) THEN [found |-> FALSE, bad |-> TRUE]
    ELSE IF KeyOf(h, p) = key THEN [found |-> TRUE, bad |-> FALSE]
    ELSE ContainsLoopShort(h, NextOf(h, p), n - 1, key)

\* the for loop of lines 273-277 over self.iter(), on a cursor (p, n):
\* [found, bad]
RECURSIVE ContainsLoop(_, _, _, _)
ContainsLoop(h, p, n, key) ==
    IF n = 0 THEN [found |-> FALSE, bad |-> FALSE]
    ELSE IF ~Ok(h, p) THEN [found |-> FALSE, bad |-> TRUE]
    ELSE IF KeyOf(h, p) = key THEN [found |-> TRUE, bad |-> FALSE]
    ELSE ContainsLoop(h, NextOf(h, p), n - 1, key)

contains(key) ==
    LET r == ContainsLoop(heap, head, len, key) IN
    /\ ~dropped
    /\ cur.kind # "iter_mut"
    /\ call' = Call("contains", 0, key)
    /\ ret' = Bool(r.found)
    /\ released' = <<>>
    /\ ub' = (ub \/ r.bad)
    /\ ReadOnly

\* ---- iteration ----
\* what a cursor step leaves alone
CursorFrame == UNCHANGED <<head, tail, len, dropped>>

iter ==
    /\ ~dropped
    /\ cur = NoCursor
    /\ cur' = [kind |-> "iter", head |-> head, len |-> len]
    /\ call' = Call("iter", 0, 0)
    /\ ret' = Unit
    /\ released' = <<>>
    /\ UNCHANGED <<heap, abs, ub>>
    /\ CursorFrame

iter_mut ==
    /\ ~dropped
    /\ cur = NoCursor
    /\ cur' = [kind |-> "iter_mut", head |-> head, len |-> len]
    /\ call' = Call("iter_mut", 0, 0)
    /\ ret' = Unit
    /\ released' = <<>>
    /\ UNCHANGED <<heap, abs, ub>>
    /\ CursorFrame

\* a step that forgets `self.len -= 1`
CursorStepNoCount(h, c) ==
    IF c.len = 0
    THEN [cur |-> c, ret |-> None, bad |-> FALSE]
    ELSE [cur |-> [c EXCEPT !.head = NextOf(h, c.head)],
          ret |-> Some(KeyOf(h, c.head)),
          bad |-> ~Ok(h, c.head)]

\* Iter::next / IterMut::next on the cursor c: [cur, ret, bad]
CursorStep(h, c) ==
    IF c.len = 0
    THEN [cur |-> c, ret |-> None, bad |-> FALSE]
    ELSE [cur |-> [c EXCEPT !.head = NextOf(h, c.head), !.len = c.len - 1],
          ret |-> Some(KeyOf(h, c.head)),
          bad |-> ~Ok(h, c.head)]

iter_next ==
    LET r == CursorStep(heap, cur) IN
    /\ cur.kind = "iter"
    /\ cur' = r.cur
    /\ call' = Call("next", 0, 0)
    /\ ret' = r.ret
    /\ released' = <<>>
    /\ ub' = (ub \/ r.bad)
    /\ UNCHANGED <<heap, abs>>
    /\ CursorFrame

\* `*x = w` through the reference that IterMut::next yielded for the node p
SetKey(h, p, w) == IF p \in DOMAIN h THEN [h EXCEPT ![p].key = w] ELSE h

\* a step whose write lands on the node the cursor has moved on to
iter_mut_next_late(w) ==
    LET r   == CursorStep(heap, cur)
        pos == len - cur.len + 1
    IN  /\ cur.kind = "iter_mut"
        /\ cur' = r.cur
        /\ call' = Call("next_mut", 0, w)
        /\ ret' = r.ret
        /\ released' = <<>>
        /\ ub' = (ub \/ r.bad)
        /\ IF r.ret = None \/ w = 0
           THEN UNCHANGED <<heap, abs>>
           ELSE /\ heap' = SetKey(heap, r.cur.head, w)
                /\ abs' = [abs EXCEPT ![pos] = w]
        /\ CursorFrame

\* IterMut::next, after which the caller writes w through the reference it
\* got (w = 0: the caller writes nothing)
iter_mut_next(w) ==
    LET r   == CursorStep(heap, cur)
        pos == len - cur.len + 1
    IN  /\ cur.kind = "iter_mut"
        /\ cur' = r.cur
        /\ call' = Call("next_mut", 0, w)
        /\ ret' = r.ret
        /\ released' = <<>>
        /\ ub' = (ub \/ r.bad)
        /\ IF r.ret = None \/ w = 0
           THEN UNCHANGED <<heap, abs>>
           ELSE /\ heap' = SetKey(heap, cur.head, w)
                /\ abs' = [abs EXCEPT ![pos] = w]
        /\ CursorFrame

\* the borrow of the cursor ends
iter_end ==
    /\ cur # NoCursor
    /\ cur' = NoCursor
    /\ call' = Call("iter_end", 0, 0)
    /\ ret' = Unit
    /\ released' = <<>>
    /\ UNCHANGED <<heap, abs, ub>>
    /\ CursorFrame

Next ==
    \/ \E k \in Keys : push_front(k)
    \/ \E k \in Keys : push_back(k)
    \/ \E at \in Indices, k \in Keys : push_at(at, k)
    \/ pop_back
    \/ pop_front
    \/ \E at \in Indices : pop_at(at)
    \/ drop

Spec == Init /\ [][Next]_vars

\* the list with its reading calls and its cursors
NextAll ==
    \/ Next
    \/ len_
    \/ is_empty
    \/ \E k \in Keys : contains(k)
    \/ iter
    \/ iter_mut
    \/ iter_next
    \/ \E w \in Keys \cup {0} : iter_mut_next(w)
    \/ iter_end

SpecAll == Init /\ [][NextAll]_vars

\* ---- what the claims speak of ----
\* the keys a cursor built from (p, n) yields: Iter::next taken until it
\* returns None
RECURSIVE IterKeys(_, _, _)
IterKeys(h, p, n) ==
    IF n = 0 THEN <<>>
    ELSE <<KeyOf(h, p)>> \o IterKeys(h, NextOf(h, p), n - 1)

Contents == IterKeys(heap, head, len)

\* the nodes met by following next (prev) links from p until the link is
\* absent; fuel stops a walk that runs in a cycle
RECURSIVE Forward(_, _, _)
Forward(h, p, fuel) ==
    IF p = Null \/ fuel = 0 THEN <<>>
    ELSE <<p>> \o Forward(h, NextOf(h, p), fuel - 1)

RECURSIVE Backward(_, _, _)
Backward(h, p, fuel) ==
    IF p = Null \/ fuel = 0 THEN <<>>
    ELSE <<p>> \o Backward(h, PrevOf(h, p), fuel - 1)

Reverse(s) == [i \in 1..Len(s) |-> s[Len(s) + 1 - i]]

FwdChain == Forward(heap, head, Len(heap) + 1)
BwdChain == Backward(heap, tail, Len(heap) + 1)

Live(p)    == p \in DOMAIN heap /\ heap[p].frees = 0
Dangling(p) == p # Null /\ ~Live(p)
FreedNodes == {p \in DOMAIN heap : heap[p].frees > 0}

\* C1: whenever the list holds a node, the head node's prev link is absent
HeadPrevAbsent ==
    (~dropped /\ len >= 1) => PrevOf(heap, head) = Null

\* C2: neither head, tail nor a link of a live node refers to a node that
\* has been deallocated
NoDanglingLink ==
    ~dropped =>
        /\ ~Dangling(head)
        /\ ~Dangling(tail)
        /\ \A p \in DOMAIN heap :
              Live(p) => ~Dangling(heap[p].prev) /\ ~Dangling(heap[p].next)

\* C3: no node is deallocated twice, and after teardown every node that was
\* allocated has been deallocated exactly once
FreedExactlyOnce ==
    /\ \A p \in DOMAIN heap : heap[p].frees <= 1
    /\ dropped => \A p \in DOMAIN heap : heap[p].frees = 1

\* a teardown that released two nodes or more, after a removal released another
FreedExactlyOnceWitness ==
    /\ dropped
    /\ Len(released) >= 2
    /\ Len(heap) > Len(released)

\* C4: front-to-back iteration yields the sequence that the same insertions
\* and removals build, and len is its length
IterationIsSequence ==
    ~dropped => (Contents = abs /\ len = Len(abs))

\* a list of three nodes or more with two different keys, after an insertion
\* in the middle and an earlier removal
IterationIsSequenceWitness ==
    /\ ~dropped
    /\ call.name = "push_at" /\ 0 < call.at /\ call.at < len - 1
    /\ len >= 3
    /\ FreedNodes # {}
    /\ \E i \in 1..len : abs[i] # abs[1]

\* C5: a pop returns the element that is first (pop_front) or last (pop_back)
\* in the sequence, and the pop that empties it leaves len 0 and head and
\* tail absent
PopRoundTrip ==
    [][/\ (call'.name = "pop_front" /\ abs # <<>>) => ret' = Some(Head(abs))
       /\ (call'.name = "pop_back" /\ abs # <<>>) => ret' = Some(abs[Len(abs)])
       /\ (call'.name \in {"pop_front", "pop_back"} /\ abs' = <<>>)
             => (len' = 0 /\ head' = Null /\ tail' = Null)]_vars

\* three pushes and three pops later: the last pop has emptied the list
PopRoundTripWitness ==
    /\ call.name \in {"pop_front", "pop_back"}
    /\ ret.kind = "some"
    /\ len = 0
    /\ Cardinality(FreedNodes) >= 3

\* C6: push_at(i, x) with 0 < i < len puts x at position i and shifts the
\* elements from i on by one; pop_at(i) with 0 < i < len - 1 returns the
\* element at position i and closes the gap; pop_at(i) right after
\* push_at(i, x) returns x (and, removal undoing insertion on sequences,
\* gives the contents back)
MiddleInsertRemove ==
    [][/\ (call'.name = "push_at" /\ 0 < call'.at /\ call'.at < len)
             => /\ ret' = Unit
                /\ Contents' = InsertAt(Contents, call'.at, call'.key)
       /\ (call'.name = "pop_at" /\ 0 < call'.at /\ call'.at < len - 1)
             => /\ ret' = Some(Contents[call'.at + 1])
                /\ Contents' = RemoveAt(Contents, call'.at)
       /\ (/\ call.name = "push_at" /\ 0 < call.at /\ call.at < len - 1
           /\ call'.name = "pop_at" /\ call'.at = call.at)
             => ret' = Some(call.key)]_vars

\* pop_at(2) has just removed the third of four elements
MiddleInsertRemoveWitness ==
    /\ call.name = "pop_at" /\ call.at = 2
    /\ ret.kind = "some"
    /\ len = 3
    /\ Live(tail) /\ released # <<>> /\ released[1] # tail

\* C7: len is 0 exactly when head and tail are absent, head is absent exactly
\* when tail is, and a list of one node has head = tail
EmptyIffAbsent ==
    ~dropped =>
        /\ (len = 0) <=> (head = Null /\ tail = Null)
        /\ (head = Null) <=> (tail = Null)
        /\ len = 1 => head = tail

\* a pop has left one node of a longer list
EmptyIffAbsentWitness ==
    /\ ~dropped
    /\ call.name \in {"pop_front", "pop_back"}
    /\ len = 1 /\ head = tail /\ Live(head)

\* C8: whenever the list holds a node, the tail node's next link is absent
TailNextAbsent ==
    (~dropped /\ len >= 1) => NextOf(heap, tail) = Null

\* pop_back has shrunk a list of two nodes or more
TailNextAbsentWitness ==
    /\ ~dropped
    /\ call.name = "pop_back" /\ ret.kind = "some"
    /\ len >= 1

\* C9: next links from head visit len distinct nodes and end at tail; prev
\* links from tail visit the same nodes in reverse, end at head and then at an
\* absent link; the links of neighbours mirror each other
ChainsMirror ==
    ~dropped =>
        /\ Len(FwdChain) = len
        /\ \A i, j \in 1..Len(FwdChain) : FwdChain[i] = FwdChain[j] => i = j
        /\ len >= 1 => FwdChain[len] = tail
        /\ BwdChain = Reverse(FwdChain)
        /\ \A n, m \in DOMAIN heap :
              (Live(n) /\ Live(m)) => (heap[n].next = m <=> heap[m].prev = n)

\* C10: an index out of range ends in the panic and changes nothing of the
\* list
OutOfRangePanics ==
    [][(\/ call'.name = "push_at" /\ call'.at > len
        \/ call'.name = "pop_at" /\ call'.at >= len)
          => (ret' = Panic /\ UNCHANGED <<head, tail, len, heap>>)]_vars

\* push_at past the end of a list that holds nodes
OutOfRangePanicsWitness ==
    /\ call.name = "push_at" /\ call.at > len
    /\ ret = Panic
    /\ len >= 1

\* C11: pop_front and pop_back on an empty list return None and leave head,
\* tail and len absent, absent and 0; on a list that holds a node they return
\* a value
PopOnEmpty ==
    [][call'.name \in {"pop_front", "pop_back"} =>
          IF len = 0
          THEN /\ ret' = None
               /\ head' = Null /\ tail' = Null /\ len' = 0
               /\ UNCHANGED <<head, tail, len, heap>>
          ELSE ret'.kind = "some" /\ ret'.val \in Keys]_vars

\* a pop on a list that earlier pushes and pops have emptied
PopOnEmptyWitness ==
    /\ call.name \in {"pop_front", "pop_back"}
    /\ ret = None
    /\ len = 0 /\ head = Null /\ tail = Null
    /\ FreedNodes # {}

\* C12: push_at(0, x) ends in the state push_front(x) ends in and
\* push_at(len, x) in that of push_back(x); on a list that holds a node
\* pop_at(0) returns and leaves what pop_front does, pop_at(len - 1) what
\* pop_back does, also where the two indices are the same
BoundaryDelegates ==
    [][/\ (call'.name = "push_at" /\ call'.at = 0)
             => (PushFront(call'.key) /\ ret' = Unit)
       /\ (call'.name = "push_at" /\ call'.at = len)
             => (PushBack(call'.key) /\ ret' = Unit)
       /\ (call'.name = "pop_at" /\ call'.at = 0 /\ len >= 1)
             => (PopFront /\ ret' = PopFrontRet)
       /\ (call'.name = "pop_at" /\ call'.at = len - 1 /\ len >= 1)
             => (PopBack /\ ret' = PopBackRet)]_vars

\* pop_at(0) on a list of one node, where 0 is the first and the last index
BoundaryDelegatesWitness ==
    /\ call.name = "pop_at" /\ call.at = 0
    /\ ret.kind = "some"
    /\ len = 0
    /\ released # <<>>

\* C13: a cursor starts at head with len elements to go; its k-th step yields
\* the k-th element of the list and moves one next link on; after len steps
\* every step yields None, moves nothing and dereferences nothing
CursorYieldsLen ==
    [][/\ call'.name \in {"iter", "iter_mut"}
             => (cur'.head = head /\ cur'.len = len)
       /\ call'.name \in {"next", "next_mut"}
             => LET k == len - cur.len IN
                /\ 0 <= k /\ k <= len
                /\ IF k < len
                   THEN /\ ret' = Some(abs[k + 1])
                        /\ cur.head = FwdChain[k + 1]
                        /\ cur'.head = NextOf(heap, cur.head)
                        /\ cur'.len = cur.len - 1
                   ELSE /\ ret' = None
                        /\ cur' = cur
                        /\ ub' = ub]_vars

\* an immutable cursor has yielded three elements or more and now yields None
CursorYieldsLenWitness ==
    /\ cur.kind = "iter" /\ cur.len = 0
    /\ call.name = "next" /\ ret = None
    /\ len >= 3

\* C14: contains(x) is true exactly when a front-to-back iteration yields an
\* element equal to x, and false on an empty list
ContainsIffIterated ==
    [][call'.name = "contains" =>
          /\ ret' = Bool(\E i \in 1..Len(Contents) : Contents[i] = call'.key)
          /\ len = 0 => ret' = Bool(FALSE)]_vars

\* contains found a key that only the last of several elements holds
ContainsIffIteratedWitness ==
    /\ call.name = "contains" /\ ret = Bool(TRUE)
    /\ len >= 2
    /\ abs[len] = call.key
    /\ \A i \in 1..(len - 1) : abs[i] # call.key

\* C16: no call ever reads or writes a node through a reference that is
\* absent or whose node has been deallocated; a stale link is never followed
NoFreedAccess == ~ub

\* pop_back has made the head, whose prev is a stale link, the only node
NoFreedAccessWitness ==
    /\ ~dropped
    /\ call.name = "pop_back"
    /\ len = 1
    /\ Dangling(PrevOf(heap, head))

TheList == [head |-> head, tail |-> tail, len |-> len, heap |-> heap]

\* C17: teardown deallocates what pop_front, called until it returns None,
\* deallocates: the same nodes, once each, from head to tail, in len rounds,
\* and nothing on an empty list
TeardownIsPopFronts ==
    [][/\ call'.name = "pop_front"
             => LET r == PopFrontFn(TheList) IN
                /\ TheList' = r.list
                /\ ret' = r.ret
                /\ released' = r.released
       /\ call'.name = "drop"
             => LET r == PopFrontAll(TheList, <<>>) IN
                /\ released' = r.released
                /\ heap' = r.list.heap
                /\ head' = r.list.head
                /\ len' = r.list.len
                /\ released' = FwdChain
                /\ Len(released') = len
                /\ r.calls = len
                /\ \A p \in DOMAIN heap : heap'[p].frees <= 1
                /\ len = 0 => (released' = <<>> /\ heap' = heap)]_vars

\* the teardown of a list of three nodes or more
TeardownIsPopFrontsWitness ==
    /\ dropped
    /\ call.name = "drop"
    /\ Len(released) >= 3

\* the nodes but for `gone` keep their key, their next unless they are a and
\* their prev unless they are b
OnlyLinksOf(a, b, gone) ==
    \A p \in DOMAIN heap :
        (Live(p) /\ p # gone) =>
            /\ heap'[p].key = heap[p].key
            /\ heap'[p].frees = 0
            /\ p # a => heap'[p].next = heap[p].next
            /\ p # b => heap'[p].prev = heap[p].prev

\* C18: push_at(i, x) with 0 < i < len and pop_at(i) with 0 < i < len - 1
\* leave head and tail alone, move len by one, and write only the next link
\* of the node at position i - 1 and the prev link of the node after the
\* place of the insertion or removal
MiddleFrame ==
    [][/\ (call'.name = "push_at" /\ 0 < call'.at /\ call'.at < len)
             => LET a == FwdChain[call'.at]
                    b == FwdChain[call'.at + 1]
                    node == Len(heap) + 1
                IN  /\ head' = head /\ tail' = tail /\ len' = len + 1
                    /\ OnlyLinksOf(a, b, Null)
                    /\ heap'[a].next = node /\ heap'[b].prev = node
                    /\ released' = <<>>
       /\ (call'.name = "pop_at" /\ 0 < call'.at /\ call'.at < len - 1)
             => LET a == FwdChain[call'.at]
                    gone == FwdChain[call'.at + 1]
                    b == FwdChain[call'.at + 2]
                IN  /\ head' = head /\ tail' = tail /\ len' = len - 1
                    /\ OnlyLinksOf(a, b, gone)
                    /\ heap'[a].next = b /\ heap'[b].prev = a
                    /\ released' = <<gone>>]_vars

\* push_at(2, x) has put a node between the second and third of three
MiddleFrameWitness ==
    /\ call.name = "push_at" /\ call.at = 2
    /\ ret = Unit
    /\ len = 4
    /\ head # Len(heap) /\ tail # Len(heap)

\* C19: len, is_empty, contains, making a cursor and a step of an immutable
\* cursor allocate and deallocate nothing and leave head, tail, len and every
\* node as they are; a step of a mutable cursor with a write through the
\* reference it yields changes the key of the yielded node and nothing else
ReadsChangeNothing ==
    [][/\ call'.name \in {"len", "is_empty", "contains", "iter", "iter_mut", "next"}
             => (UNCHANGED <<head, tail, len, heap>> /\ released' = <<>>)
       /\ call'.name = "next_mut"
             => /\ UNCHANGED <<head, tail, len>>
                /\ released' = <<>>
                /\ DOMAIN heap' = DOMAIN heap
                /\ \A p \in DOMAIN heap :
                      /\ heap'[p].prev = heap[p].prev
                      /\ heap'[p].next = heap[p].next
                      /\ heap'[p].frees = heap[p].frees
                      /\ (p # cur.head \/ cur.len = 0)
                            => heap'[p].key = heap[p].key
                /\ (cur.len > 0 /\ call'.key # 0)
                      => heap'[cur.head].key = call'.key]_vars

\* a mutable cursor has yielded the second of several elements and the
\* caller has written another key through the reference
ReadsChangeNothingWitness ==
    /\ cur.kind = "iter_mut"
    /\ call.name = "next_mut" /\ call.key # 0
    /\ ret.kind = "some" /\ ret.val # call.key
    /\ len >= 3 /\ cur.len = len - 2
    /\ abs[2] = call.key

====
